---------------------------- MODULE Spec2Model ----------------------------
(***************************************************************************)
(* The agent lifecycle of agentuniverse/agent/agent.py: Agent.run          *)
(* (input_check, pre_parse_input, execute, parse_result, output_check,     *)
(* return) and the tool adapter Agent.langchain_run.                       *)
(*                                                                         *)
(* Python values are written as their literals in strings ("'hi'", "[]",   *)
(* "None"); a dict is a function from key strings to such literals.        *)
(***************************************************************************)
EXTENDS Integers, Sequences, FiniteSets

VARIABLES
    agent,            \* the concrete agent: its keys and its hooks
    agent_model,      \* self.agent_model
    now,              \* the wall clock, in half days since 2024-03-12 00:00
    pc,               \* where the current call stands
    entry,            \* "run" or "langchain_run": the method the caller called
    lc_input,         \* langchain_run: the input string
    lc_callbacks,     \* langchain_run: the callbacks argument
    lc_kwargs,        \* langchain_run: the extra keyword arguments
    parsed,           \* langchain_run: what parse_json_markdown gave
    kwargs,           \* run: the supplied fields (the InputObject wraps them)
    now_read,         \* pre_parse_input: the datetime.now() it read
    agent_input,      \* pre_parse_input: the mapping handed to the planner
    parse_input_ret,  \* the value parse_input returned
    planner_result,   \* execute: the planner's result
    agent_result,     \* parse_result's value
    output,           \* the OutputObject run returned
    lc_result,        \* what langchain_run returned
    error,            \* the exception that left the call
    steps,            \* the steps of run executed in this call, in order
    lookups,          \* planner lookups in this call
    invocations,      \* planner invocations in this call
    remembered        \* one earlier run that returned: its fields, date, output

vars == <<agent, agent_model, now, pc, entry, lc_input, lc_callbacks, lc_kwargs, parsed,
          kwargs, now_read, agent_input, parse_input_ret, planner_result,
          agent_result, output, lc_result, error, steps, lookups,
          invocations, remembered>>

----------------------------------------------------------------------------
\* Bounds of the model.

\* The clock stops after this many half days.
MaxTicks == 2

----------------------------------------------------------------------------
\* Python values.

PyNone == "None"

\* The literals Python's `or` takes for false.
Falsy == {"None", "''", "[]", "0", "False", "{}"}

\* `a or b`.
PyOr(a, b) == IF a \in Falsy THEN b ELSE a

EmptyDict == [k \in {} |-> PyNone]

\* d[k] = v
Put(d, k, v) == [x \in (DOMAIN d) \cup {k} |-> IF x = k THEN v ELSE d[x]]

\* del d[k]
Remove(d, k) == [x \in (DOMAIN d) \ {k} |-> d[x]]

\* {**a, **b}
Merge(a, b) == [x \in (DOMAIN a) \cup (DOMAIN b) |->
                    IF x \in DOMAIN b THEN b[x] ELSE a[x]]

\* A value that is a dict, and one that is not.
Dict(d) == [isdict |-> TRUE, d |-> d, lit |-> "dict"]
NonDict(l) == [isdict |-> FALSE, d |-> EmptyDict, lit |-> l]
NoValue == NonDict("<unset>")

Range(s) == {s[i] : i \in 1..Len(s)}

\* Exceptions.
NoError == [cls |-> "", msg |-> "", arg |-> ""]
Raise(cls, msg, arg) == [cls |-> cls, msg |-> msg, arg |-> arg]

----------------------------------------------------------------------------
\* InputObject and OutputObject: wrappers of a mapping.

\* InputObject.get_data(key) / OutputObject.get_data(key): the value, or
\* None when the key is absent.
get_data(obj, key) == IF key \in DOMAIN obj THEN obj[key] ELSE PyNone

----------------------------------------------------------------------------
\* Agent.input_check and Agent.output_check.

InputValidationError(key) == Raise("Exception", "Input must have key: ", key)
OutputTypeError == Raise("Exception", "Output type must be dict.", "")
OutputValidationError(key) == Raise("Exception", "Output must have key: ", key)

\* The first key of `keys`, in the list's order, that `d` lacks (0: none).
FirstMissing(keys, d) ==
    LET missing == {i \in 1..Len(keys) : keys[i] \notin DOMAIN d}
    IN  IF missing = {} THEN 0
        ELSE CHOOSE i \in missing : \A j \in missing : i <= j

\* A variant of input_check that looks at the first key only.
input_check_first_key_only(input_keys, kw) ==
    IF Len(input_keys) = 0 \/ input_keys[1] \in DOMAIN kw THEN NoError
    ELSE InputValidationError(input_keys[1])

\* for key in self.input_keys(): if key not in kwargs.keys(): raise
input_check(input_keys, kw) ==
    LET i == FirstMissing(input_keys, kw)
    IN  IF i = 0 THEN NoError ELSE InputValidationError(input_keys[i])

\* A variant of output_check that looks at the first key only.
output_check_first_key_only(output_keys, res) ==
    IF ~res.isdict THEN OutputTypeError
    ELSE IF Len(output_keys) = 0 \/ output_keys[1] \in DOMAIN res.d
         THEN NoError
         ELSE OutputValidationError(output_keys[1])

\* if not isinstance(kwargs, dict): raise; then as input_check
output_check(output_keys, res) ==
    IF ~res.isdict THEN OutputTypeError
    ELSE LET i == FirstMissing(output_keys, res.d)
         IN  IF i = 0 THEN NoError ELSE OutputValidationError(output_keys[i])

----------------------------------------------------------------------------
\* Agent.pre_parse_input.

\* The clock counts half days.
TicksPerDay == 2

\* The dates of the model's days, as strftime('%Y-%m-%d') writes them.
DayNames == <<"'2024-03-12'", "'2024-03-13'", "'2024-03-14'", "'2024-03-15'">>

\* A variant of strftime whose format keeps the hour.
HalfDayNames == <<"'2024-03-12 00'", "'2024-03-12 12'", "'2024-03-13 00'",
                  "'2024-03-13 12'", "'2024-03-14 00'", "'2024-03-14 12'">>
strftime_with_hour(tick) == HalfDayNames[tick + 1]

\* datetime.now().strftime('%Y-%m-%d'): the day, the time of day dropped.
strftime(tick) == DayNames[(tick \div TicksPerDay) + 1]

StandardFields == {"chat_history", "background", "image_urls", "date"}

\* A variant of the seeding that takes the default for None only.
pre_parse_input_seed_none_only(input_object, tick) ==
    LET dflt(k, d) == IF get_data(input_object, k) = PyNone THEN d
                      ELSE get_data(input_object, k)
    IN  [chat_history |-> dflt("chat_history", "''"),
         background   |-> dflt("background", "''"),
         image_urls   |-> dflt("image_urls", "[]"),
         date         |-> DayNames[(tick \div TicksPerDay) + 1]]

\* The mapping pre_parse_input builds before it calls parse_input.
pre_parse_input_seed(input_object, tick) ==
    [chat_history |-> PyOr(get_data(input_object, "chat_history"), "''"),
     background   |-> PyOr(get_data(input_object, "background"), "''"),
     image_urls   |-> PyOr(get_data(input_object, "image_urls"), "[]"),
     date         |-> strftime(tick)]

----------------------------------------------------------------------------
\* The subclass hooks (abstract in Agent) and the planner: the behaviours
\* the model lets a concrete agent have.

ParseInputKinds == {"inplace", "fresh", "remove", "overwrite"}

\* parse_input(input_object, agent_input): what it leaves in the agent_input
\* it was handed (mut) and what it returns (ret).
\*   inplace   sets agent_input['input'] and returns agent_input
\*   fresh     returns a new dict and leaves agent_input alone
\*   remove    as inplace, and deletes the standard field 'date'
\*   overwrite as inplace, and overwrites the standard field 'chat_history'
parse_input(kind, input_object, ai) ==
    LET withInput == Put(ai, "input", get_data(input_object, "query"))
    IN  CASE kind = "inplace"   -> [mut |-> withInput, ret |-> withInput]
          [] kind = "fresh"     -> [mut |-> ai, ret |-> withInput]
          [] kind = "remove"    -> [mut |-> Remove(withInput, "date"),
                                    ret |-> Remove(withInput, "date")]
          [] kind = "overwrite" ->
                 [mut |-> Put(withInput, "chat_history", "'parsed'"),
                  ret |-> Put(withInput, "chat_history", "'parsed'")]

ParseResultKinds == {"identity", "pick", "nondict"}

\* parse_result(planner_result).
\*   identity  the planner's result as it is
\*   pick      {'answer': planner_result.get('answer')}
\*   nondict   a string
parse_result(kind, pr) ==
    CASE kind = "identity" -> pr
      [] kind = "pick"     -> Dict([answer |-> get_data(pr.d, "answer")])
      [] kind = "nondict"  -> NonDict("'text'")

\* The planner registry: the names PlannerManager knows.
PlannerRegistry == {"const_planner", "echo_planner", "failing_planner"}
PlannerNames == PlannerRegistry \cup {"missing_planner"}

PlannerResolutionError(name) ==
    Raise("PlannerResolutionError", "no planner named ", name)
PlannerInvocationError == Raise("PlannerInvocationError", "planner failed", "")

\* PlannerManager().get_instance_obj(name)
get_instance_obj(name) ==
    IF name \in PlannerRegistry THEN NoError ELSE PlannerResolutionError(name)

\* An attribute read of None.
AttributeError(attr) ==
    Raise("AttributeError", "'NoneType' object has no attribute ", attr)

\* agent_model = None, the class attribute Agent.__init__ leaves.
NoAgentModel ==
    [isnone |-> TRUE, info |-> [name |-> ""],
     plan |-> [isnone |-> TRUE, planner |-> [name |-> ""]]]

\* The plan sections a configuration descriptor may hold: none, or one
\* naming a planner.
NoPlan == [isnone |-> TRUE, planner |-> [name |-> ""]]
PlanOf(planner) == [isnone |-> FALSE, planner |-> [name |-> planner]]
ConfigerPlans == {NoPlan} \cup {PlanOf(p) : p \in PlannerNames}

\* AgentModel(info=info, profile=profile, plan=plan, ...)
AgentModelOf(plan) ==
    [isnone |-> FALSE, info |-> [name |-> "demo_agent"], plan |-> plan]

\* self.agent_model.plan.get('planner').get('name'): the name, or the
\* AttributeError of reading None.
planner_name(am) ==
    IF am.isnone THEN [err |-> AttributeError("plan"), name |-> ""]
    ELSE IF am.plan.isnone THEN [err |-> AttributeError("get"), name |-> ""]
    ELSE [err |-> NoError, name |-> am.plan.planner.name]

\* The first statement of execute: the planner's name is read, then the
\* registry is asked for it (looked: get_instance_obj was called).
execute_lookup(am) ==
    LET n == planner_name(am)
    IN  IF n.err # NoError THEN [err |-> n.err, looked |-> FALSE]
        ELSE [err |-> get_instance_obj(n.name), looked |-> TRUE]

\* Planner.invoke(agent_model, agent_input, input_object): deterministic in
\* its arguments.
\*   const_planner    {'answer': 'hello'}
\*   echo_planner     agent_input, with 'answer' set to agent_input['input']
\*   failing_planner  raises
planner_invoke(name, am, ai, input_object) ==
    CASE name = "const_planner" ->
             [err |-> NoError, res |-> Dict([answer |-> "'hello'"])]
      [] name = "echo_planner" ->
             [err |-> NoError,
              res |-> Dict(Put(ai, "answer", get_data(ai, "input")))]
      [] OTHER -> [err |-> PlannerInvocationError, res |-> NoValue]

----------------------------------------------------------------------------
\* Agent.langchain_run.

\* The input strings the model hands to langchain_run (plain JSON: a TLA+
\* string cannot hold the backquotes of a markdown fence).
LcInputs ==
    {"not json",
     "query=hi",
     "{\"query\": \"hi\"}",
     "{\"query\": \"hi\", \"background\": \"bg\"}",
     "{\"background\": \"bg\"}",
     "{\"query\": \"hi\", \"callbacks\": 1}",
     "{\"query\": \"hi\", \"self\": 1}",
     "[1, 2]",
     "null"}

\* parse_json_markdown(input) of langchain_core on those strings: ok is
\* FALSE when it raises, else val is the value parsed.
parse_json_markdown(s) ==
    CASE s = "{\"query\": \"hi\"}" ->
             [ok |-> TRUE, val |-> Dict([query |-> "'hi'"])]
      [] s = "{\"query\": \"hi\", \"background\": \"bg\"}" ->
             [ok |-> TRUE,
              val |-> Dict([query |-> "'hi'", background |-> "'bg'"])]
      [] s = "{\"background\": \"bg\"}" ->
             [ok |-> TRUE, val |-> Dict([background |-> "'bg'"])]
      [] s = "{\"query\": \"hi\", \"callbacks\": 1}" ->
             [ok |-> TRUE, val |-> Dict([query |-> "'hi'", callbacks |-> "1"])]
      [] s = "{\"query\": \"hi\", \"self\": 1}" ->
             [ok |-> TRUE, val |-> Dict([query |-> "'hi'", self |-> "1"])]
      [] s = "[1, 2]" -> [ok |-> TRUE, val |-> NonDict("[1, 2]")]
      [] s = "null" -> [ok |-> TRUE, val |-> NonDict("None")]
      [] OTHER -> [ok |-> FALSE, val |-> NoValue]

\* What langchain_run returns when the parse raised.
LangchainParseErrorString ==
    "Error , Your Action Input is not a valid JSON string"

\* A variant of the except clause that lets the parse error out.
langchain_parse_failure_reraise ==
    [err |-> Raise("JSONDecodeError", "Expecting value", ""),
     res |-> NoValue]

\* except Exception: ...; return "Error , ..."
langchain_parse_failure == [err |-> NoError,
                            res |-> NonDict(LangchainParseErrorString)]

NotAMapping == Raise("TypeError", "argument after ** must be a mapping", "")
MultipleValues == Raise("TypeError", "got multiple values for argument", "")

\* The names the call self.run(**parse_result, callbacks=callbacks, **kwargs)
\* binds before parse_result's keys are unpacked into it: self, callbacks and
\* the keys of kwargs.
BoundNames(kw) == {"self", "callbacks"} \cup DOMAIN kw

\* A variant of the call that merges the mappings, the last value winning.
run_call_kwargs_last_wins(val, callbacks, kw) ==
    IF ~val.isdict THEN [err |-> NotAMapping, kwargs |-> EmptyDict]
    ELSE [err |-> NoError,
          kwargs |-> Merge(Put(val.d, "callbacks", callbacks), kw)]

\* The keyword arguments of self.run(**parse_result, callbacks=callbacks,
\* **kwargs), or the TypeError the call raises before run is entered: a
\* parse_result that is no mapping, or a name given twice.
run_call_kwargs(val, callbacks, kw) ==
    IF ~val.isdict THEN [err |-> NotAMapping, kwargs |-> EmptyDict]
    ELSE IF (DOMAIN val.d) \cap BoundNames(kw) # {}
         THEN [err |-> MultipleValues, kwargs |-> EmptyDict]
         ELSE [err |-> NoError,
               kwargs |-> Merge(Put(val.d, "callbacks", callbacks), kw)]

\* A variant of the projection that hands the whole output mapping back.
langchain_result_unprojected(output_keys, output_object) == output_object

\* result_dict[key] = output_object.get_data(key) for key in output_keys()
langchain_result(output_keys, output_object) ==
    [k \in Range(output_keys) |-> get_data(output_object, k)]

----------------------------------------------------------------------------
\* Agent.run: the order of its steps.

RunSteps == <<"input_check", "pre_parse_input", "parse_input",
              "execute_lookup", "execute_invoke", "parse_result",
              "output_check", "return">>

\* A variant of run that carries on after a planner failure.
after_step_swallow(step, err) ==
    LET i == CHOOSE j \in 1..Len(RunSteps) : RunSteps[j] = step
    IN  IF err # NoError /\ step \notin {"execute_lookup", "execute_invoke"}
        THEN "raised"
        ELSE IF i = Len(RunSteps) THEN "returned" ELSE RunSteps[i + 1]

\* A variant of run that invokes the planner a second time when it failed.
after_step_retry(step, err) ==
    IF err # NoError
    THEN IF step = "execute_invoke" /\ invocations = 0
         THEN "execute_invoke" ELSE "raised"
    ELSE LET i == CHOOSE j \in 1..Len(RunSteps) : RunSteps[j] = step
         IN  IF i = Len(RunSteps) THEN "returned" ELSE RunSteps[i + 1]

\* Where run stands after `step` ended with `err`: an exception leaves run
\* (nothing in run or execute catches it), else the next statement runs.
after_step(step, err) ==
    IF err # NoError THEN "raised"
    ELSE LET i == CHOOSE j \in 1..Len(RunSteps) : RunSteps[j] = step
         IN  IF i = Len(RunSteps) THEN "returned" ELSE RunSteps[i + 1]

\* Where the caller stands once run returned: the caller of run has the
\* OutputObject, langchain_run goes on to build result_dict.
after_return(caller) == IF caller = "run" THEN "returned" ELSE "lc_project"

----------------------------------------------------------------------------
\* The concrete agents and the inputs of the model.

InputKeyLists == {<<"query">>, <<"query", "background">>}
OutputKeyLists == {<<"answer">>, <<"answer", "date">>}

Agents ==
    [input_keys : InputKeyLists, output_keys : OutputKeyLists,
     parse_input : ParseInputKinds, parse_result : ParseResultKinds]

\* One standard field supplied besides the query.
SuppliedExtras ==
    {<<"chat_history", "'h1'">>, <<"chat_history", "[]">>,
     <<"chat_history", "''">>, <<"background", "'bg'">>,
     <<"background", "0">>, <<"image_urls", "['u1']">>,
     <<"image_urls", "''">>, <<"date", "'1999-01-01'">>}

\* The fields the model's callers hand to run.
RunInputs ==
    {EmptyDict, [background |-> "'bg'"], [query |-> "'hi'"]}
        \cup {Put([query |-> "'hi'"], e[1], e[2]) : e \in SuppliedExtras}

\* The callbacks and extra keyword arguments handed to langchain_run.
LcCallArgs ==
    {[callbacks |-> PyNone, kwargs |-> EmptyDict],
     [callbacks |-> "<handler>", kwargs |-> EmptyDict],
     [callbacks |-> PyNone, kwargs |-> [session |-> "'s1'"]],
     [callbacks |-> PyNone, kwargs |-> [query |-> "'kw'"]]}

NotRemembered == [set |-> FALSE, agent_model |-> NoAgentModel,
                  kwargs |-> EmptyDict, tick |-> 0, output |-> EmptyDict]

\* No call is running.
AtRest == pc \in {"idle", "returned", "raised", "lc_returned"}

\* The locals of a call before it assigned them.
FreshCall ==
    /\ parsed' = [ok |-> FALSE, val |-> NoValue]
    /\ now_read' = 0
    /\ agent_input' = EmptyDict
    /\ parse_input_ret' = EmptyDict
    /\ planner_result' = NoValue
    /\ agent_result' = NoValue
    /\ output' = EmptyDict
    /\ lc_result' = NoValue
    /\ error' = NoError
    /\ steps' = <<>>
    /\ lookups' = 0
    /\ invocations' = 0

Init ==
    /\ agent \in Agents
    /\ agent_model = NoAgentModel
    /\ now = 0
    /\ pc = "idle"
    /\ entry = "run"
    /\ lc_input = ""
    /\ lc_callbacks = PyNone
    /\ lc_kwargs = EmptyDict
    /\ parsed = [ok |-> FALSE, val |-> NoValue]
    /\ kwargs = EmptyDict
    /\ now_read = 0
    /\ agent_input = EmptyDict
    /\ parse_input_ret = EmptyDict
    /\ planner_result = NoValue
    /\ agent_result = NoValue
    /\ output = EmptyDict
    /\ lc_result = NoValue
    /\ error = NoError
    /\ steps = <<>>
    /\ lookups = 0
    /\ invocations = 0
    /\ remembered = NotRemembered

----------------------------------------------------------------------------
\* The callers.

\* A caller calls agent.run(**kw).
CallRun ==
    /\ AtRest
    /\ \E kw \in RunInputs : kwargs' = kw
    /\ entry' = "run"
    /\ pc' = "input_check"
    /\ lc_input' = ""
    /\ lc_callbacks' = PyNone
    /\ lc_kwargs' = EmptyDict
    /\ FreshCall
    /\ UNCHANGED <<agent, agent_model, now, remembered>>

\* A caller calls agent.initialize_by_component_configer(configer), for the
\* first time or again: agent_model is built from the configuration loaded.
InitializeByComponentConfiger ==
    /\ AtRest
    /\ \E plan \in ConfigerPlans : agent_model' = AgentModelOf(plan)
    /\ pc' = "idle"
    /\ entry' = "run"
    /\ kwargs' = EmptyDict
    /\ lc_input' = ""
    /\ lc_callbacks' = PyNone
    /\ lc_kwargs' = EmptyDict
    /\ FreshCall
    /\ UNCHANGED <<agent, now, remembered>>

\* A caller calls agent.langchain_run(s, callbacks=..., **kw).
CallLangchainRun ==
    /\ AtRest
    /\ \E s \in LcInputs, a \in LcCallArgs :
          /\ lc_input' = s
          /\ lc_callbacks' = a.callbacks
          /\ lc_kwargs' = a.kwargs
    /\ entry' = "langchain_run"
    /\ pc' = "lc_parse"
    /\ kwargs' = EmptyDict
    /\ FreshCall
    /\ UNCHANGED <<agent, agent_model, now, remembered>>

\* The clock moves on.
Tick ==
    /\ now < MaxTicks
    /\ now' = now + 1
    /\ UNCHANGED <<agent, agent_model, pc, entry, lc_input, lc_callbacks,
                   lc_kwargs, parsed, kwargs, now_read, agent_input, parse_input_ret,
                   planner_result, agent_result, output, lc_result, error,
                   steps, lookups, invocations, remembered>>

----------------------------------------------------------------------------
\* Agent.run, statement by statement.

callerVars == <<agent, agent_model, now, entry, lc_input, lc_callbacks, lc_kwargs,
                parsed, remembered>>

\* self.input_check(kwargs); input_object = InputObject(kwargs)
InputCheck ==
    /\ pc = "input_check"
    /\ LET err == input_check(agent.input_keys, kwargs)
       IN  /\ error' = err
           /\ pc' = after_step("input_check", err)
    /\ steps' = Append(steps, "input_check")
    /\ UNCHANGED <<callerVars, kwargs, now_read, agent_input,
                   parse_input_ret, planner_result, agent_result, output,
                   lc_result, lookups, invocations>>

\* pre_parse_input up to its call of parse_input: the standard fields.
PreParseInput ==
    /\ pc = "pre_parse_input"
    /\ now_read' = now
    /\ agent_input' = pre_parse_input_seed(kwargs, now)
    /\ pc' = after_step("pre_parse_input", NoError)
    /\ steps' = Append(steps, "pre_parse_input")
    /\ UNCHANGED <<callerVars, kwargs, parse_input_ret, planner_result,
                   agent_result, output, lc_result, error, lookups,
                   invocations>>

\* self.parse_input(input_object, agent_input); return agent_input
\* The value parse_input returns is not assigned.
ParseInput ==
    /\ pc = "parse_input"
    /\ LET r == parse_input(agent.parse_input, kwargs, agent_input)
       IN  /\ agent_input' = r.mut
           /\ parse_input_ret' = r.ret
    /\ pc' = after_step("parse_input", NoError)
    /\ steps' = Append(steps, "parse_input")
    /\ UNCHANGED <<callerVars, kwargs, now_read, planner_result,
                   agent_result, output, lc_result, error, lookups,
                   invocations>>

\* execute: planner_base = PlannerManager().get_instance_obj(
\*              self.agent_model.plan.get('planner').get('name'))
\* The lookup is counted, and is a step of the run, when the registry was
\* asked.
ExecuteLookup ==
    /\ pc = "execute_lookup"
    /\ LET r == execute_lookup(agent_model)
       IN  /\ error' = r.err
           /\ pc' = after_step("execute_lookup", r.err)
           /\ lookups' = IF r.looked THEN lookups + 1 ELSE lookups
           /\ steps' = IF r.looked THEN Append(steps, "execute_lookup")
                       ELSE steps
    /\ UNCHANGED <<callerVars, kwargs, now_read, agent_input,
                   parse_input_ret, planner_result, agent_result, output,
                   lc_result, invocations>>

\* execute: planner_base.invoke(self.agent_model, agent_input, input_object)
ExecuteInvoke ==
    /\ pc = "execute_invoke"
    /\ LET r == planner_invoke(planner_name(agent_model).name,
                               agent_model, agent_input, kwargs)
       IN  /\ planner_result' = r.res
           /\ error' = r.err
           /\ pc' = after_step("execute_invoke", r.err)
    /\ invocations' = invocations + 1
    /\ steps' = Append(steps, "execute_invoke")
    /\ UNCHANGED <<callerVars, kwargs, now_read, agent_input,
                   parse_input_ret, agent_result, output, lc_result,
                   lookups>>

\* agent_result = self.parse_result(planner_result)
ParseResult ==
    /\ pc = "parse_result"
    /\ agent_result' = parse_result(agent.parse_result, planner_result)
    /\ pc' = after_step("parse_result", NoError)
    /\ steps' = Append(steps, "parse_result")
    /\ UNCHANGED <<callerVars, kwargs, now_read, agent_input,
                   parse_input_ret, planner_result, output, lc_result,
                   error, lookups, invocations>>

\* self.output_check(agent_result)
OutputCheck ==
    /\ pc = "output_check"
    /\ LET err == output_check(agent.output_keys, agent_result)
       IN  /\ error' = err
           /\ pc' = after_step("output_check", err)
    /\ steps' = Append(steps, "output_check")
    /\ UNCHANGED <<callerVars, kwargs, now_read, agent_input,
                   parse_input_ret, planner_result, agent_result, output,
                   lc_result, lookups, invocations>>

\* output_object = OutputObject(agent_result); return output_object
Return ==
    /\ pc = "return"
    /\ output' = agent_result.d
    /\ LET nxt == after_step("return", NoError)
       IN  pc' = IF nxt = "returned" THEN after_return(entry) ELSE nxt
    /\ steps' = Append(steps, "return")
    /\ UNCHANGED <<callerVars, kwargs, now_read, agent_input,
                   parse_input_ret, planner_result, agent_result, lc_result,
                   error, lookups, invocations>>

----------------------------------------------------------------------------
\* Agent.langchain_run, statement by statement.

runVars == <<now_read, agent_input, parse_input_ret, planner_result,
             agent_result, output, steps, lookups, invocations>>

\* try: parse_result = parse_json_markdown(input)
\* except Exception: LOGGER.error(...); return "Error , ..."
LangchainParse ==
    /\ pc = "lc_parse"
    /\ LET r == parse_json_markdown(lc_input)
           f == langchain_parse_failure
       IN  /\ parsed' = r
           /\ IF r.ok
              THEN /\ pc' = "lc_call"
                   /\ UNCHANGED <<lc_result, error>>
              ELSE /\ lc_result' = f.res
                   /\ error' = f.err
                   /\ pc' = IF f.err = NoError THEN "lc_returned"
                            ELSE "raised"
    /\ UNCHANGED <<agent, agent_model, now, entry, lc_input, lc_callbacks,
                   lc_kwargs, remembered, kwargs, runVars>>

\* self.run(**parse_result, callbacks=callbacks, **kwargs): the call itself
LangchainCall ==
    /\ pc = "lc_call"
    /\ LET b == run_call_kwargs(parsed.val, lc_callbacks, lc_kwargs)
       IN  /\ error' = b.err
           /\ kwargs' = b.kwargs
           /\ pc' = IF b.err = NoError THEN "input_check" ELSE "raised"
    /\ UNCHANGED <<callerVars, lc_result, runVars>>

\* result_dict = {key: output_object.get_data(key) for each output key}
LangchainProject ==
    /\ pc = "lc_project"
    /\ lc_result' = Dict(langchain_result(agent.output_keys, output))
    /\ pc' = "lc_returned"
    /\ UNCHANGED <<callerVars, kwargs, error, runVars>>

----------------------------------------------------------------------------
\* The observer of the idempotence property: it remembers one run that
\* returned, to compare a later run with.

RunReturned == pc = "returned" \/ (pc = "lc_returned" /\ steps # <<>>)

Observe ==
    /\ RunReturned
    /\ ~remembered.set
    /\ remembered' = [set |-> TRUE, agent_model |-> agent_model,
                      kwargs |-> kwargs, tick |-> now_read,
                      output |-> output]
    /\ UNCHANGED <<agent, agent_model, now, pc, entry, lc_input, lc_callbacks, lc_kwargs,
                   parsed, kwargs, now_read, agent_input, parse_input_ret,
                   planner_result, agent_result, output, lc_result, error,
                   steps, lookups, invocations>>

----------------------------------------------------------------------------
\* The specifications.

Next ==
    \/ InitializeByComponentConfiger
    \/ CallRun
    \/ CallLangchainRun
    \/ Tick
    \/ InputCheck
    \/ PreParseInput
    \/ ParseInput
    \/ ExecuteLookup
    \/ ExecuteInvoke
    \/ ParseResult
    \/ OutputCheck
    \/ Return
    \/ LangchainParse
    \/ LangchainCall
    \/ LangchainProject

Spec == Init /\ [][Next]_vars

\* The agents of the idempotence check: one list of input keys and of output
\* keys, hooks that hand the planner's result on, whole or its answer alone.
IdemAgents ==
    {a \in Agents : /\ a.input_keys = <<"query">>
                    /\ a.output_keys = <<"answer">>
                    /\ a.parse_input = "inplace"
                    /\ a.parse_result \in {"identity", "pick"}}

InitIdem == Init /\ agent \in IdemAgents

NextIdem == Next \/ Observe

SpecIdem == InitIdem /\ [][NextIdem]_vars

----------------------------------------------------------------------------
\* The properties.

ViaLangchain == entry = "langchain_run"

\* Some declared input key is absent from the fields run was given.
InputKeyMissing == \E k \in Range(agent.input_keys) : k \notin DOMAIN kwargs

InputValidationErrors ==
    {InputValidationError(k) : k \in Range(agent.input_keys) \ DOMAIN kwargs}

OutputValidationErrors ==
    {OutputTypeError} \cup
    {OutputValidationError(k) : k \in Range(agent.output_keys)}

\* The number of times run executed `step` in this call.
Times(step) == Cardinality({i \in 1..Len(steps) : steps[i] = step})

Did(step) == Times(step) > 0

\* C1: a run whose fields lack a key of input_keys() raises the input
\* validation error (naming a missing key), and in that run the planner is
\* neither looked up nor invoked, and parse_input and parse_result are not
\* called: input_check is the only step the run executed.
C1_MissingInputKeyRaises ==
    (Did("input_check") /\ InputKeyMissing) =>
        /\ pc = "raised"
        /\ error \in InputValidationErrors
        /\ steps = <<"input_check">>
        /\ lookups = 0
        /\ invocations = 0
        /\ ~Did("parse_input") /\ ~Did("parse_result")
        /\ output = EmptyDict

\* C1's case: the first input key is supplied, a later one is not.
C1_Witness ==
    /\ pc = "raised"
    /\ Did("input_check")
    /\ "query" \in DOMAIN kwargs
    /\ error = InputValidationError("background")

\* C2: when parse_result's value is no mapping, or a mapping that lacks a
\* key of output_keys(), run raises the output validation error and returns
\* no OutputObject; and every OutputObject run returns wraps parse_result's
\* mapping, which holds every key of output_keys().
C2_OutputChecked ==
    /\ (Did("output_check") /\
        (~agent_result.isdict \/
         \E k \in Range(agent.output_keys) : k \notin DOMAIN agent_result.d))
           => /\ pc = "raised"
              /\ error \in OutputValidationErrors
              /\ ~Did("return")
              /\ output = EmptyDict
    /\ Did("return")
           => /\ agent_result.isdict
              /\ output = agent_result.d
              /\ Range(agent.output_keys) \subseteq DOMAIN output

\* C2's case: parse_result gave a mapping with the first output key and
\* without the second, and run raised.
C2_Witness ==
    /\ pc = "raised"
    /\ agent_result.isdict
    /\ "answer" \in DOMAIN agent_result.d
    /\ error = OutputValidationError("date")

\* The default of a standard field other than date.
StandardDefault(k) == IF k = "image_urls" THEN "[]" ELSE "''"

\* pre_parse_input has built its mapping and not yet called parse_input.
Seeded == pc = "parse_input"

\* C3 as stated: each standard field of the mapping pre_parse_input built
\* is the supplied value whenever the key was supplied, whatever the value,
\* and else the default ('' / '' / [] / the current date).
C3_SuppliedValueAlwaysKept ==
    Seeded =>
        \A k \in StandardFields :
            agent_input[k] =
                IF k \in DOMAIN kwargs THEN kwargs[k]
                ELSE IF k = "date" THEN strftime(now_read)
                ELSE StandardDefault(k)

\* C3 amended: chat_history, background and image_urls hold the supplied
\* value when the key was supplied with a value Python takes for true, and
\* else the default; date holds the current date whatever was supplied.
C3_SuppliedTruthyValueKept ==
    Seeded =>
        /\ \A k \in {"chat_history", "background", "image_urls"} :
              agent_input[k] =
                  IF k \in DOMAIN kwargs /\ kwargs[k] \notin Falsy
                  THEN kwargs[k] ELSE StandardDefault(k)
        /\ agent_input["date"] = DayNames[(now_read \div TicksPerDay) + 1]
        /\ DOMAIN agent_input = StandardFields

\* C3's case: a standard field supplied with a false value that is not its
\* default.
C3_Witness ==
    /\ Seeded
    /\ "chat_history" \in DOMAIN kwargs
    /\ kwargs["chat_history"] = "[]"
    /\ agent_input["chat_history"] = "''"

\* C4: on an input string parse_json_markdown cannot parse, langchain_run
\* returns the literal error string, raises nothing and starts no run: no
\* input_check, no planner lookup or invocation.
C4_UnparsableInputReturnsErrorString ==
    (ViaLangchain /\ pc # "lc_parse" /\ ~parse_json_markdown(lc_input).ok) =>
        /\ pc = "lc_returned"
        /\ lc_result = NonDict(LangchainParseErrorString)
        /\ error = NoError
        /\ steps = <<>>
        /\ lookups = 0
        /\ invocations = 0

C4_Witness ==
    /\ ViaLangchain
    /\ lc_input = "not json"
    /\ pc = "lc_returned"
    /\ lc_result.lit = LangchainParseErrorString

\* The parsed JSON is an object none of whose keys the call binds otherwise.
ParsedBindable ==
    /\ parsed.ok
    /\ parsed.val.isdict
    /\ (DOMAIN parsed.val.d) \cap BoundNames(lc_kwargs) = {}

\* The parsed JSON is an object with every key of input_keys().
ParsedHasInputKeys ==
    /\ parsed.ok
    /\ parsed.val.isdict
    /\ Range(agent.input_keys) \subseteq DOMAIN parsed.val.d

\* run raised because the planner (its name unreadable, unknown to the
\* registry, or failing) or parse_result yielded no mapping with every key
\* of output_keys().
NoValidResult ==
    \/ error.cls \in {"AttributeError", "PlannerResolutionError",
                      "PlannerInvocationError"}
    \/ /\ error \in OutputValidationErrors
       /\ output_check(agent.output_keys, agent_result) # NoError

\* What langchain_run returned is the run's output cut down to output_keys().
ExactProjection ==
    /\ lc_result.isdict
    /\ DOMAIN lc_result.d = Range(agent.output_keys)
    /\ \A k \in Range(agent.output_keys) : lc_result.d[k] = output[k]

\* C5 as stated: on a valid JSON input with every key of input_keys(),
\* langchain_run fails only when the planner or parse_result yields no valid
\* mapping, and what it returns is exactly the projection on output_keys().
C5_ValidInputReturnsProjection ==
    (ViaLangchain /\ ParsedHasInputKeys) =>
        /\ pc = "raised" => NoValidResult
        /\ pc = "lc_returned" => ExactProjection

\* C5 amended: the same, for a JSON object that has no key 'self', no key
\* 'callbacks' and no key equal to an extra keyword argument.
C5_BindableInputReturnsProjection ==
    (ViaLangchain /\ ParsedHasInputKeys /\ ParsedBindable) =>
        /\ pc = "raised" => NoValidResult
        /\ pc = "lc_returned" => ExactProjection

\* C5's case: langchain_run returned, and the run's output had a key that
\* is no output key.
C5_Witness ==
    /\ ViaLangchain
    /\ ParsedHasInputKeys
    /\ pc = "lc_returned"
    /\ DOMAIN output # Range(agent.output_keys)
    /\ DOMAIN lc_result.d = Range(agent.output_keys)

\* The run that just returned was given the fields of the remembered one,
\* under the same agent_model (the same planner).
SameFieldsAsRemembered ==
    /\ RunReturned
    /\ remembered.set
    /\ remembered.agent_model = agent_model
    /\ remembered.kwargs = kwargs

\* Both runs read the clock on the same day.
SameDayAsRemembered ==
    (remembered.tick \div TicksPerDay) = (now_read \div TicksPerDay)

\* C6 as stated: two runs of the agent with identical input fields, under
\* the same agent_model (the hooks and the planner deterministic), return
\* identical contents, whatever calls came before or between them.
C6_SameFieldsSameOutput ==
    SameFieldsAsRemembered => output = remembered.output

\* C6 amended: two such runs return identical contents when
\* pre_parse_input read the same current date in both; and no step of a
\* call changes agent_model.
C6_SameFieldsSameDateSameOutput ==
    /\ []((SameFieldsAsRemembered /\ SameDayAsRemembered) =>
              output = remembered.output)
    /\ [][~AtRest => agent_model' = agent_model]_vars

\* C6's case: a later run with the remembered run's fields, on the same day
\* at another time.
C6_Witness ==
    /\ SameFieldsAsRemembered
    /\ SameDayAsRemembered
    /\ remembered.tick # now_read
    /\ "date" \in DOMAIN output

\* The failure, if any, of each check and of the planner in this call (the
\* other steps raise nothing).
StepFailure(step) ==
    CASE step = "input_check" -> input_check(agent.input_keys, kwargs)
      [] step = "execute_lookup" -> execute_lookup(agent_model).err
      [] step = "execute_invoke" ->
             planner_invoke(planner_name(agent_model).name, agent_model,
                            agent_input, kwargs).err
      [] step = "output_check" ->
             output_check(agent.output_keys, agent_result)
      [] OTHER -> NoError

\* execute raised while it read the planner's name off agent_model, before
\* it asked the registry.
PlannerNameUnreadable ==
    /\ Did("parse_input")
    /\ pc # "execute_lookup"
    /\ planner_name(agent_model).err # NoError

\* C7: only the JSON parse failure of langchain_run is swallowed. A failed
\* input check, planner lookup, planner invocation or output check leaves
\* the call as that very exception, through run and through langchain_run
\* alike, with no OutputObject, no result mapping and no error string in
\* its place; and the error string is returned for a parse failure only.
C7_OnlyParseFailureSwallowed ==
    /\ \A step \in {"input_check", "execute_lookup", "execute_invoke",
                    "output_check"} :
          (Did(step) /\ StepFailure(step) # NoError) =>
              /\ pc = "raised"
              /\ error = StepFailure(step)
              /\ steps[Len(steps)] = step
    /\ PlannerNameUnreadable =>
          /\ pc = "raised"
          /\ error = planner_name(agent_model).err
          /\ lookups = 0 /\ invocations = 0
    /\ pc = "raised" => /\ error # NoError
                        /\ output = EmptyDict
                        /\ lc_result = NoValue
    /\ lc_result = NonDict(LangchainParseErrorString) =>
          /\ ViaLangchain
          /\ ~parsed.ok
          /\ steps = <<>>

\* C7's case: the planner failed in a run started through the adapter.
C7_Witness ==
    /\ ViaLangchain
    /\ pc = "raised"
    /\ error = PlannerInvocationError

\* The order of run's steps, as the claim gives it.
LifecycleOrder == <<"input_check", "pre_parse_input", "parse_input",
                    "execute_lookup", "execute_invoke", "parse_result",
                    "output_check", "return">>

\* C8: the steps a run executed are an initial part of the lifecycle order;
\* a run that is under way stands at the step after the last one done, with
\* no failure behind it; a run that raised executed nothing after the step
\* that failed; the planner is invoked once in a run that returned and at
\* most once in any run.
C8_FixedOrderNoRetry ==
    /\ Len(steps) <= Len(LifecycleOrder)
    /\ \A i \in 1..Len(steps) : steps[i] = LifecycleOrder[i]
    /\ pc \in Range(LifecycleOrder) =>
          /\ pc = LifecycleOrder[Len(steps) + 1]
          /\ error = NoError
    /\ (pc = "raised" /\ steps # <<>>) =>
          /\ \/ StepFailure(steps[Len(steps)]) # NoError
             \/ steps[Len(steps)] = "parse_input" /\ PlannerNameUnreadable
          /\ \A i \in 1..(Len(steps) - 1) :
                steps[i] \in {"input_check", "execute_lookup",
                              "execute_invoke", "output_check"}
                    => StepFailure(steps[i]) = NoError
    /\ invocations = Times("execute_invoke")
    /\ lookups = Times("execute_lookup")
    /\ invocations <= 1
    /\ RunReturned => steps = LifecycleOrder /\ invocations = 1

\* C8's case: a run that went through every step and returned.
C8_Witness ==
    /\ pc = "returned"
    /\ steps = LifecycleOrder
    /\ invocations = 1

\* C9: the mapping pre_parse_input returns, which execute hands to the
\* planner, holds every field of the mapping parse_input returned, and the
\* standard fields that parse_input's mapping kept.
C9_ParseInputReturnMerged ==
    Did("parse_input") =>
        \A k \in DOMAIN parse_input_ret :
            k \in DOMAIN agent_input /\ agent_input[k] = parse_input_ret[k]

\* langchain_run entered run exactly once in this call: run stands at its
\* first step, or has executed it once.
RunStartedOnce ==
    IF pc = "input_check" THEN steps = <<>> ELSE Times("input_check") = 1

\* C10 as stated: whenever the JSON parse succeeded, langchain_run started
\* run exactly once, and an exception that left it was raised inside run.
C10_ParsedInputAlwaysStartsRun ==
    (ViaLangchain /\ parsed.ok /\ pc \notin {"lc_parse", "lc_call"}) =>
        /\ RunStartedOnce
        /\ pc = "raised" => error.cls # "TypeError"

\* C10 amended: when the parsed JSON is an object with no key 'self', no key
\* 'callbacks' and no key equal to an extra keyword argument, langchain_run
\* starts run exactly once on the parsed fields, 'callbacks' and the extra
\* keyword arguments, and an exception that leaves it was raised inside run;
\* otherwise the call of run raises TypeError before run starts.
C10_BindableInputStartsRun ==
    (ViaLangchain /\ parsed.ok /\ pc \notin {"lc_parse", "lc_call"}) =>
        IF ParsedBindable
        THEN /\ RunStartedOnce
             /\ kwargs = Merge(Put(parsed.val.d, "callbacks", lc_callbacks),
                               lc_kwargs)
             /\ pc = "raised" => error.cls # "TypeError"
        ELSE /\ pc = "raised"
             /\ error.cls = "TypeError"
             /\ steps = <<>>
             /\ lookups = 0 /\ invocations = 0

\* C10's case: the parsed object has a key the call binds otherwise.
C10_Witness ==
    /\ ViaLangchain
    /\ parsed.ok
    /\ parsed.val.isdict
    /\ ~ParsedBindable
    /\ pc = "raised"
    /\ error = MultipleValues

=============================================================================
